---- MODULE Spec2Model ----
(***************************************************************************)
(* State-machine model of the QuickChat session layer:                     *)
(*   frontend/src/api/chatService.ts   (ChatService: event bus, connection,*)
(*                                      stream forwarding, handshake)      *)
(*   frontend/src/components/Chat.tsx  (the collaborator: listeners that   *)
(*                                      accumulate streamed messages)      *)
(* The browser's WebSocket and timer queue are the environment.            *)
(***************************************************************************)
EXTENDS Naturals, Sequences, FiniteSets, TLC

VARIABLES
    sockets,      \* every WebSocket the service created: [readyState, closeFired]
    socket,       \* ChatService.socket: 0 is null, else an index into sockets
    subscribers,  \* ChatService.subscribers: event -> sequence of listeners
    initialData,  \* ChatService.initialData: NoData is null
    timers,       \* pending setTimeout callbacks of setInitialData, in creation order
    now,          \* the clock, in milliseconds
    uuids,        \* how many crypto.randomUUID() values were drawn
    chat,         \* the Chat component: [mounted, messages, isConnected, connectionError]
    trace,        \* history: every call, send, notification, listener invocation, return
    budget        \* how many more environment steps of each kind the run may take

vars == <<sockets, socket, subscribers, initialData, timers, now, uuids, chat, trace, budget>>

(***************************************************************************)
(* Bounds of the model.                                                    *)
(***************************************************************************)
MaxSockets == 2        \* new WebSocket(...) calls
MaxMounts == 2         \* mounts of the Chat component
MaxApi == 2            \* direct connect() / disconnect() calls
MaxErrors == 1         \* transport error callbacks
MaxCalls == 2          \* sendMessage / setInitialData calls
MaxTurns == 4          \* sendMessage / setInitialData calls, composer specification
MaxTicks == 2          \* clock advances
MaxFrames == 4         \* inbound frames, streaming specification
ManyFrames == 6        \* inbound frames, two-stream specification
MaxSubs == 2           \* subscribe / unsubscribe calls of other collaborators
FewFrames == 1         \* inbound frames, general and bus specifications
SomeFrames == 2        \* inbound frames, dispatch specification
TickMs == 250          \* one clock advance, in milliseconds

(***************************************************************************)
(* Program constants.                                                      *)
(***************************************************************************)
TriggerDelayMs == 500

\* enum WebSocketEvent
CONNECTED == "connected"
DISCONNECTED == "disconnected"
MESSAGE_RECEIVED == "message_received"
STREAM_START == "stream_start"
STREAM_CHUNK == "stream_chunk"
STREAM_END == "stream_end"
TYPING == "typing"
ERROR == "error"

WebSocketEvent ==
    {CONNECTED, DISCONNECTED, MESSAGE_RECEIVED, STREAM_START, STREAM_CHUNK,
     STREAM_END, TYPING, ERROR}

\* JavaScript's undefined, where it meets a string: undefined + "lo" is "undefinedlo"
Undefined == "undefined"

\* ChatService.initialData = null
NoData == [none |-> TRUE]

(***************************************************************************)
(* JSON.  A JSON text is modelled as a tagged value: [json |-> v] is the   *)
(* text JSON.stringify(v) produces; [garbage |-> TRUE] is a text that is   *)
(* not JSON.  JSON.parse fails on the latter.                              *)
(***************************************************************************)
JSONstringify(v) == [json |-> v]

JSONparses(text) == "json" \in DOMAIN text

JSONparse(text) == text.json

\* the value JSON.parse returns for the text "null"
Null == [null |-> TRUE]

\* obj.field, undefined when the object has no such property
Get(obj, field) == IF field \in DOMAIN obj THEN obj[field] ELSE Undefined

\* a || b on strings: undefined and '' are falsy
OrElse(a, b) == IF a = Undefined \/ a = "" THEN b ELSE a

\* crypto.randomUUID(): the n-th value drawn, never equal to a server-chosen id
RandomUUID(n) == "uuid-" \o ToString(n)

(***************************************************************************)
(* JSON on the wire.  The text JSON.stringify produces for the objects the *)
(* service sends, as a sequence of characters, and JSON.parse reading such *)
(* a sequence back.  A string is spelled as its characters; a string that  *)
(* holds none of the characters JSON treats specially is spelled as one    *)
(* unit.                                                                   *)
(***************************************************************************)
\* the characters of a string
Spell(s) ==
    CASE s = "" -> <<>>
      [] s = "a\"b" -> <<"a", "\"", "b">>
      [] s = "c\\" -> <<"c", "\\">>
      [] s = "{\"x\":\"y\"}" -> <<"{", "\"", "x", "\"", ":", "\"", "y", "\"", "}">>
      [] s = "1,2" -> <<"1", ",", "2">>
      [] OTHER -> <<s>>

\* mutant: the quotation mark is not escaped
EscapeBackslashOnly(chars, i) ==
    IF chars[i] = "\\" THEN <<"\\", "\\">> ELSE <<chars[i]>>

\* JSON.stringify of one character of a string: the quotation mark and the
\* backslash are escaped with a backslash
EscapeChar(chars, i) ==
    IF chars[i] \in {"\"", "\\"} THEN <<"\\", chars[i]>> ELSE <<chars[i]>>

\* the characters lo..hi of a string, escaped
RECURSIVE Escape(_, _, _)
Escape(chars, lo, hi) ==
    IF lo > hi THEN <<>>
    ELSE IF lo = hi THEN EscapeChar(chars, lo)
    ELSE Escape(chars, lo, (lo + hi) \div 2) \o Escape(chars, (lo + hi) \div 2 + 1, hi)

\* JSON.stringify of a string
Quote(chars) == <<"\"">> \o Escape(chars, 1, Len(chars)) \o <<"\"">>

\* the order in which the service's object literals list their properties
KeyOrder == <<"type", "token", "content", "sector", "check_size", "geographical_location">>

\* JSON.stringify of the object of a JSON text the service builds; the content of a
\* frame (an object with a type) is itself the text of an object
RECURSIVE Text(_)
RECURSIVE Members(_, _, _)
Members(obj, n, first) ==
    IF n > Len(KeyOrder) THEN <<>>
    ELSE IF KeyOrder[n] \notin DOMAIN obj THEN Members(obj, n + 1, first)
    ELSE LET key == KeyOrder[n]
             value == IF key = "content" /\ "type" \in DOMAIN obj
                      THEN Text(obj[key]) ELSE Spell(obj[key])
         IN  (IF first THEN <<>> ELSE <<",">>) \o Quote(<<key>>) \o <<":">> \o Quote(value)
                \o Members(obj, n + 1, FALSE)

Text(t) == <<"{">> \o Members(JSONparse(t), 1, TRUE) \o <<"}">>

\* the string property values of the object of a JSON text, as characters
Values(t) ==
    [key \in DOMAIN JSONparse(t) |->
        IF key = "content" /\ "type" \in DOMAIN JSONparse(t)
        THEN Text(JSONparse(t)[key]) ELSE Spell(JSONparse(t)[key])]

Failure == [ok |-> FALSE]

\* how many backslashes stand directly before position j, from position i on
BackslashRun(chars, i, j) ==
    CHOOSE n \in 0..(j - i) :
        /\ \A m \in 1..n : chars[j - m] = "\\"
        /\ n = j - i \/ chars[j - n - 1] # "\\"

\* the character at position p, in a string that starts at i, is itself escaped
Escaped(chars, i, p) == BackslashRun(chars, i, p) % 2 = 1

\* JSON.parse reading a string whose opening quotation mark is before position i:
\* it ends at the first quotation mark that is not escaped; a backslash that is not
\* escaped introduces an escape and must be followed by a quotation mark or a
\* backslash
ReadString(chars, i) ==
    LET ends == {j \in i..Len(chars) : chars[j] = "\"" /\ ~Escaped(chars, i, j)}
    IN  IF ends = {} THEN Failure
        ELSE LET end == CHOOSE j \in ends : \A m \in ends : j <= m
                 Introduces(p) == chars[p] = "\\" /\ ~Escaped(chars, i, p)
                 kept == SelectSeq([n \in 1..(end - i) |-> i + n - 1],
                                   LAMBDA p : ~Introduces(p))
             IN  IF \E p \in i..(end - 1) :
                        Introduces(p) /\ chars[p + 1] \notin {"\"", "\\"}
                 THEN Failure
                 ELSE [ok |-> TRUE, value |-> [n \in DOMAIN kept |-> chars[kept[n]]],
                       next |-> end + 1]

\* a string at position i
StringAt(chars, i) ==
    IF i <= Len(chars) /\ chars[i] = "\"" THEN ReadString(chars, i + 1) ELSE Failure

\* JSON.parse reading the members of an object from position i: the pairs read
RECURSIVE ReadMembers(_, _, _)
ReadMembers(chars, i, acc) ==
    LET key == StringAt(chars, i)
    IN  IF ~key.ok \/ key.next > Len(chars) \/ chars[key.next] # ":" THEN Failure
        ELSE LET value == StringAt(chars, key.next + 1)
             IN  IF ~value.ok \/ value.next > Len(chars) THEN Failure
                 ELSE LET pairs == Append(acc, <<key.value, value.value>>)
                      IN  IF chars[value.next] = "}"
                          THEN IF value.next = Len(chars)
                               THEN [ok |-> TRUE, pairs |-> pairs] ELSE Failure
                          ELSE IF chars[value.next] = ","
                               THEN ReadMembers(chars, value.next + 1, pairs)
                               ELSE Failure

\* JSON.parse of the text of an object with string values: the object, its values as
\* characters; of two members with one key the later wins
Parse(chars) ==
    IF Len(chars) < 2 \/ chars[1] # "{" THEN Failure
    ELSE IF Len(chars) = 2 /\ chars[2] = "}" THEN [ok |-> TRUE, value |-> <<>>]
    ELSE LET r == ReadMembers(chars, 2, <<>>)
         IN  IF ~r.ok \/ \E n \in DOMAIN r.pairs : Len(r.pairs[n][1]) # 1 THEN Failure
             ELSE [ok |-> TRUE,
                   value |-> [key \in {r.pairs[n][1][1] : n \in DOMAIN r.pairs} |->
                                r.pairs[CHOOSE n \in DOMAIN r.pairs :
                                            /\ r.pairs[n][1][1] = key
                                            /\ \A m \in DOMAIN r.pairs :
                                                r.pairs[m][1][1] = key => m <= n][2]]]

(***************************************************************************)
(* The Chat component's listeners (Chat.tsx 28-76).  A listener maps the   *)
(* component state and the event payload to the next component state.      *)
(***************************************************************************)
onConnected(c, data) == [c EXCEPT !.isConnected = TRUE, !.connectionError = FALSE]

onDisconnected(c, data) == [c EXCEPT !.isConnected = FALSE]

onError(c, data) == [c EXCEPT !.connectionError = TRUE]

onMessageReceived(c, message) == [c EXCEPT !.messages = Append(@, message)]

onTyping(c, data) == c

onStreamStart(c, message) == [c EXCEPT !.messages = Append(@, message)]

\* mutant: the chunk is put in front of the text
WithChunkPrepended(msg, chunk) == [msg EXCEPT !.text = chunk \o msg.text]

\* {...msg, text: msg.text + data.chunk}
WithChunk(msg, chunk) == [msg EXCEPT !.text = msg.text \o chunk]

\* {...msg, isStreaming: false}
WithStreamingFalse(msg) ==
    [f \in DOMAIN msg \cup {"isStreaming"} |->
        IF f = "isStreaming" THEN FALSE ELSE msg[f]]

\* mutant: every message matches
MatchesAny(msg, data) == TRUE

\* msg.id === data.id
Matches(msg, data) == msg.id = data.id

onStreamChunk(c, data) ==
    LET prev == c.messages
    IN  [c EXCEPT !.messages =
            [i \in DOMAIN prev |->
                IF Matches(prev[i], data) THEN WithChunk(prev[i], data.chunk) ELSE prev[i]]]

onStreamEnd(c, data) ==
    LET prev == c.messages
    IN  [c EXCEPT !.messages =
            [i \in DOMAIN prev |->
                IF Matches(prev[i], data) THEN WithStreamingFalse(prev[i]) ELSE prev[i]]]

ChatListener ==
    [connected |-> "onConnected", disconnected |-> "onDisconnected",
     error |-> "onError", message_received |-> "onMessageReceived",
     typing |-> "onTyping", stream_start |-> "onStreamStart",
     stream_chunk |-> "onStreamChunk", stream_end |-> "onStreamEnd"]

ChatListeners == {ChatListener[e] : e \in WebSocketEvent}

\* the order of the subscribe calls (Chat.tsx 79-86) and of the unsubscribe calls (93-100)
ChatEvents ==
    <<CONNECTED, DISCONNECTED, ERROR, MESSAGE_RECEIVED, TYPING, STREAM_START,
      STREAM_CHUNK, STREAM_END>>

\* the state of a freshly mounted (or unmounted) component: useState initial values
ChatInitial(mounted) ==
    [mounted |-> mounted, messages |-> <<>>, isConnected |-> FALSE,
     connectionError |-> FALSE]

(***************************************************************************)
(* A handler runs on a machine state st = [trace, chat, subs, raised]:     *)
(* what it logs, the component state its listeners change, the subscriber  *)
(* table listeners may edit, and whether an exception is propagating.      *)
(***************************************************************************)
Log(st, entry) == [st EXCEPT !.trace = Append(@, entry)]

\* Other listeners a collaborator may register: "ok*" return normally, "bad*" raise,
\* "once" unsubscribes itself from the event it is called for, "adder" subscribes
\* "ok2" to the event it is called for
RaisingListeners == {"bad"}
PlainListeners == {"ok1", "ok2"}
SelfRemovingListeners == {"once"}
AddingListeners == {"adder"}

\* ChatService.subscribe (37-42)
subscribe(subs, ev, l) == [subs EXCEPT ![ev] = Append(@, l)]

\* callbacks.indexOf(callback): 0 when absent
IndexOf(s, l) ==
    IF \E i \in DOMAIN s : s[i] = l
    THEN CHOOSE i \in DOMAIN s : s[i] = l /\ \A j \in 1..(i - 1) : s[j] # l
    ELSE 0

\* callbacks.splice(index, 1)
Splice(s, i) == [j \in 1..(Len(s) - 1) |-> IF j < i THEN s[j] ELSE s[j + 1]]

\* ChatService.unsubscribe (44-52)
unsubscribe(subs, ev, l) ==
    LET i == IndexOf(subs[ev], l)
    IN  IF i # 0 THEN [subs EXCEPT ![ev] = Splice(@, i)] ELSE subs

\* callback(data)
Invoke(st, l, ev, data) ==
    LET st1 == Log(st, [k |-> "invoke", l |-> l, ev |-> ev, data |-> data])
    IN  CASE l = "onConnected" -> [st1 EXCEPT !.chat = onConnected(@, data)]
          [] l = "onDisconnected" -> [st1 EXCEPT !.chat = onDisconnected(@, data)]
          [] l = "onError" -> [st1 EXCEPT !.chat = onError(@, data)]
          [] l = "onMessageReceived" -> [st1 EXCEPT !.chat = onMessageReceived(@, data)]
          [] l = "onTyping" -> [st1 EXCEPT !.chat = onTyping(@, data)]
          [] l = "onStreamStart" -> [st1 EXCEPT !.chat = onStreamStart(@, data)]
          [] l = "onStreamChunk" -> [st1 EXCEPT !.chat = onStreamChunk(@, data)]
          [] l = "onStreamEnd" -> [st1 EXCEPT !.chat = onStreamEnd(@, data)]
          [] l \in RaisingListeners -> [st1 EXCEPT !.raised = TRUE]
          [] l \in SelfRemovingListeners -> [st1 EXCEPT !.subs = unsubscribe(@, ev, l)]
          [] l \in AddingListeners -> [st1 EXCEPT !.subs = subscribe(@, ev, "ok2")]
          [] OTHER -> st1

\* callbacks.forEach(callback => callback(data)): indices 1..n of the live array,
\* n its length when the loop started; an exception ends the loop
RECURSIVE ForEach(_, _, _, _, _)
ForEach(st, ev, data, i, n) ==
    IF i > n \/ st.raised THEN st
    ELSE IF i > Len(st.subs[ev]) THEN ForEach(st, ev, data, i + 1, n)
    ELSE ForEach(Invoke(st, st.subs[ev][i], ev, data), ev, data, i + 1, n)

\* ChatService.notify (chatService.ts 54-59)
notify(st, ev, data) ==
    LET st1 == Log(st, [k |-> "notify", ev |-> ev, data |-> data,
                            listeners |-> st.subs[ev]])
    IN  ForEach(st1, ev, data, 1, Len(st1.subs[ev]))

\* the machine state a handler starts from
Start == [trace |-> trace, chat |-> chat, subs |-> subscribers, raised |-> FALSE]

\* the handler's effects on trace, chat and subscribers become the next state
Commit(st) ==
    /\ trace' = st.trace
    /\ chat' = st.chat
    /\ subscribers' = st.subs

(***************************************************************************)
(* The browser's WebSocket.                                                *)
(***************************************************************************)
ReadyState(s) == IF s = 0 THEN "none" ELSE sockets[s].readyState

\* this.socket && this.socket.readyState === WebSocket.OPEN, on the sockets `socks`
IsOpen(socks, s) == s # 0 /\ socks[s].readyState = "OPEN"

SetReadyState(socks, s, rs) == [socks EXCEPT ![s].readyState = rs]

\* socket.send(data) on socket s
Send(st, s, data, call) ==
    Log(st, [k |-> "send", sock |-> s, data |-> data, at |-> now, call |-> call])

(***************************************************************************)
(* ChatService.connect (61-133) and the four callbacks it installs.        *)
(***************************************************************************)
\* mutant: connect() never returns early
NeverAlreadyConnected == FALSE

\* connect() returns early: this.socket?.readyState === WebSocket.OPEN
AlreadyConnected == IsOpen(sockets, socket)

\* the body of connect(): the sockets and this.socket afterwards, and what it logs
connect(st) ==
    IF AlreadyConnected
    THEN [st |-> Log(st, [k |-> "console", level |-> "log",
                           msg |-> "WebSocket is already connected"]),
          sockets |-> sockets, socket |-> socket]
    ELSE [st |-> Log(st, [k |-> "new", sock |-> Len(sockets) + 1]),
          sockets |-> Append(sockets, [readyState |-> "CONNECTING", closeFired |-> FALSE]),
          socket |-> Len(sockets) + 1]

AuthFrame == JSONstringify([type |-> "auth", token |-> "test"])

\* mutant: the open callback announces the connection without authenticating
onopenWithoutAuth(st, socks) == notify(st, CONNECTED, Undefined)

\* socket.onopen (73-83), running with the sockets as `socks`
onopen(st, socks) ==
    LET st1 == IF IsOpen(socks, socket) THEN Send(st, socket, AuthFrame, 0) ELSE st
    IN  notify(st1, CONNECTED, Undefined)

\* socket.onclose (85-88)
onclose(st) == notify(st, DISCONNECTED, Undefined)

\* mutant: the error callback also announces the disconnection
onerrorDisconnecting(st, error) == notify(notify(st, ERROR, error), DISCONNECTED, Undefined)

\* socket.onerror (90-93)
onerror(st, error) == notify(st, ERROR, error)

\* ChatService.handleStreamStart (135-145)
handleStreamStart(st, wsMessage) ==
    LET mid == Get(wsMessage, "message_id")
        message == [id |-> OrElse(mid, RandomUUID(uuids + 1)),
                    text |-> Get(wsMessage, "content"),
                    timestamp |-> now,
                    sender |-> Get(wsMessage, "sender"),
                    isStreaming |-> TRUE]
    IN  notify(st, STREAM_START, message)

\* mutant: the chunk is dropped
handleStreamChunkDropped(st, wsMessage) == st

\* ChatService.handleStreamChunk (147-152)
handleStreamChunk(st, wsMessage) ==
    LET id == OrElse(Get(wsMessage, "message_id"), "")
        chunk == OrElse(Get(wsMessage, "content"), "")
    IN  notify(st, STREAM_CHUNK, [id |-> id, chunk |-> chunk])

\* ChatService.handleStreamEnd (154-158)
handleStreamEnd(st, wsMessage) ==
    LET id == OrElse(Get(wsMessage, "message_id"), "")
    IN  notify(st, STREAM_END, [id |-> id])

\* ChatService.handleMessage (160-170)
handleMessage(st, wsMessage) ==
    LET mid == Get(wsMessage, "message_id")
        message == [id |-> OrElse(mid, RandomUUID(uuids + 1)),
                    text |-> Get(wsMessage, "content"),
                    timestamp |-> now,
                    sender |-> Get(wsMessage, "sender"),
                    type |-> wsMessage.type]
    IN  notify(st, MESSAGE_RECEIVED, message)

\* whether dispatching wsMessage draws a crypto.randomUUID()
DrawsUUID(wsMessage) ==
    /\ Get(wsMessage, "type") \in {"stream_start", "message", "greeting"}
    /\ OrElse(Get(wsMessage, "message_id"), "") = ""

\* mutant: the system message is forwarded like a single-shot message
SystemMessageForwarded(st, wsMessage) == handleMessage(st, wsMessage)

\* case 'system_message' (117-120): logged, not forwarded
SystemMessageCase(st, wsMessage) ==
    Log(st, [k |-> "console", level |-> "log", msg |-> "System message"])

\* mutant: an unhandled type is reported on the bus
DefaultCaseReported(st, wsMessage) == notify(st, ERROR, "Unhandled message type")

\* default (125-126): logged, otherwise ignored
DefaultCase(st, wsMessage) ==
    Log(st, [k |-> "console", level |-> "log", msg |-> "Unhandled message type"])

\* the switch of socket.onmessage (101-127); reading null.type raises a TypeError
Dispatch(st, wsMessage) ==
    LET type == Get(wsMessage, "type")
    IN  CASE wsMessage = Null -> [st EXCEPT !.raised = TRUE]
          [] type = "stream_start" -> handleStreamStart(st, wsMessage)
          [] type = "stream_chunk" -> handleStreamChunk(st, wsMessage)
          [] type = "stream_end" -> handleStreamEnd(st, wsMessage)
          [] type = "typing" -> notify(st, TYPING, Undefined)
          [] type = "error" -> notify(st, ERROR, Get(wsMessage, "content"))
          [] type = "system_message" -> SystemMessageCase(st, wsMessage)
          [] type \in {"message", "greeting"} -> handleMessage(st, wsMessage)
          [] OTHER -> DefaultCase(st, wsMessage)

\* mutant: the exception is caught and not reported
CatchSilent(st) == [st EXCEPT !.raised = FALSE]

\* the catch block (128-131): the exception is caught, then reported on the bus
Catch(st) == notify([st EXCEPT !.raised = FALSE], ERROR, "exception")

\* socket.onmessage (95-132)
onmessage(st, data) ==
    IF ~JSONparses(data) THEN Catch(st)
    ELSE LET st1 == Dispatch(st, JSONparse(data))
         IN  IF st1.raised THEN Catch(st1) ELSE st1

\* ChatService.disconnect (172-176): the sockets afterwards
disconnect(socks, s) ==
    IF IsOpen(socks, s) THEN SetReadyState(socks, s, "CLOSING") ELSE socks

(***************************************************************************)
(* The remaining public operations.                                        *)
(***************************************************************************)
InitDataFrame(data) ==
    JSONstringify([type |-> "init_data", sector |-> data.sector,
                   check_size |-> data.checkSize,
                   geographical_location |-> data.geographicalLocation])

\* the frame of the setTimeout callback (194-204)
TriggerFrame(data) ==
    JSONstringify([type |-> "message",
                   content |-> JSONstringify([content |-> "init_reasoning",
                                              sector |-> data.sector,
                                              check_size |-> data.checkSize,
                                              geographical_location |->
                                                  data.geographicalLocation])])

\* this.initialData?.field || ''
Field(data, field) == IF data = NoData THEN "" ELSE OrElse(data[field], "")

\* mutant: the chat turn carries the text only
ChatFrameWithoutContext(message, data) ==
    JSONstringify([type |-> "message",
                   content |-> JSONstringify([content |-> message, sector |-> "",
                                              check_size |-> "",
                                              geographical_location |-> ""])])

\* the frame of sendMessage (216-228)
ChatFrame(message, data) ==
    JSONstringify([type |-> "message",
                   content |-> JSONstringify([content |-> message,
                                              sector |-> Field(data, "sector"),
                                              check_size |-> Field(data, "checkSize"),
                                              geographical_location |->
                                                  Field(data, "geographicalLocation")])])

\* mutant: the trigger is not delayed
TimerDueAtOnce == now

\* the delay handed to setTimeout (206)
TimerDue == now + TriggerDelayMs

\* mutant: any socket, whatever its state, lets setInitialData send
ContextMaySendWithSocket == socket # 0

\* the guard of setInitialData (182)
ContextMaySend == IsOpen(sockets, socket)

\* the guard of the setTimeout callback (193)
TimerMaySend == IsOpen(sockets, socket)

\* mutant: only a missing socket rejects the send
SendRejectedOnlyWithoutSocket == socket = 0

\* the guard of sendMessage (211)
SendRejected == socket = 0 \/ sockets[socket].readyState # "OPEN"

(***************************************************************************)
(* Inputs.                                                                 *)
(***************************************************************************)
Ids == {"m1", "m2"}
Contents == {"Hel", "lo"}
Texts == {"hi"}
Turns == {"hi", "again"}

\* texts and form data holding the characters JSON treats specially
WireTexts == {"hi", "", "a\"b", "c\\", "{\"x\":\"y\"}", "1,2"}

WireFormData ==
    {[sector |-> "tech", checkSize |-> "5M", geographicalLocation |-> "US"],
     [sector |-> "a\"b", checkSize |-> "c\\", geographicalLocation |-> "1,2"]}
FormData ==
    {[sector |-> "tech", checkSize |-> "5M", geographicalLocation |-> "US"],
     [sector |-> "bio", checkSize |-> "1M", geographicalLocation |-> "EU"]}

StreamAlphabet ==
    {JSONstringify([type |-> "stream_start", message_id |-> id, content |-> c,
                    sender |-> "assistant"]) : id \in Ids, c \in {"Hel"}}
    \cup {JSONstringify([type |-> "stream_start", content |-> "Hel", sender |-> "assistant"])}
    \cup {JSONstringify([type |-> "stream_chunk", message_id |-> id, content |-> c]) :
            id \in Ids, c \in Contents}
    \cup {JSONstringify([type |-> "stream_chunk", message_id |-> "m1"])}
    \cup {JSONstringify([type |-> "stream_chunk", content |-> "lo"])}
    \cup {JSONstringify([type |-> "stream_end", message_id |-> id]) : id \in Ids}
    \cup {JSONstringify([type |-> "stream_end"])}
    \cup {JSONstringify([type |-> "message", message_id |-> "m1", content |-> "Hel",
                         sender |-> "assistant"])}

\* the frames of two streams, each a start, a chunk and an end
TwoStreams ==
    {JSONstringify([type |-> "stream_start", message_id |-> "m1", content |-> "Hel",
                    sender |-> "assistant"]),
     JSONstringify([type |-> "stream_start", message_id |-> "m2", content |-> "lo",
                    sender |-> "assistant"]),
     JSONstringify([type |-> "stream_chunk", message_id |-> "m1", content |-> "lo"]),
     JSONstringify([type |-> "stream_chunk", message_id |-> "m2", content |-> "Hel"]),
     JSONstringify([type |-> "stream_end", message_id |-> "m1"]),
     JSONstringify([type |-> "stream_end", message_id |-> "m2"])}

BusAlphabet ==
    {JSONstringify([type |-> "stream_chunk", message_id |-> "m1", content |-> "lo"]),
     JSONstringify([type |-> "error", content |-> "boom"]),
     [garbage |-> TRUE]}

BusEvents == {STREAM_CHUNK, ERROR}

\* the events and listeners of other collaborators in the dispatch specification
InboundEvents == {MESSAGE_RECEIVED, ERROR}

InboundListeners == RaisingListeners \cup {"ok1"}

\* the listeners other collaborators register
BusListeners ==
    PlainListeners \cup RaisingListeners \cup SelfRemovingListeners \cup AddingListeners

Alphabet ==
    {JSONstringify([type |-> "stream_start", message_id |-> "m1", content |-> "Hel",
                    sender |-> "assistant"]),
     JSONstringify([type |-> "stream_chunk", message_id |-> "m1", content |-> "lo"]),
     JSONstringify([type |-> "stream_end", message_id |-> "m1"]),
     JSONstringify([type |-> "typing"]),
     JSONstringify([type |-> "error", content |-> "boom"]),
     JSONstringify([type |-> "system_message", content |-> "note"]),
     JSONstringify([type |-> "message", message_id |-> "m2", content |-> "Hel",
                    sender |-> "assistant"]),
     JSONstringify([type |-> "greeting", content |-> "lo", sender |-> "system"]),
     JSONstringify([type |-> "pong"]),
     JSONstringify([content |-> "lo"]),
     JSONstringify(Null),
     [garbage |-> TRUE]}

(***************************************************************************)
(* Actions.  Each is one whole handler or one whole public call.           *)
(***************************************************************************)
Spend(what) == budget' = [budget EXCEPT ![what] = @ - 1]

\* a public call starts; cur and ready record this.socket and its readyState then
Call(op, arg) ==
    Log(Start, [k |-> "call", op |-> op, arg |-> arg, cur |-> socket,
                ready |-> ReadyState(socket)])

\* a callback of socket s (or of the timer queue) starts, the sockets being socks
Callback(op, s, arg, socks) ==
    Log(Start, [k |-> "callback", op |-> op, sock |-> s, arg |-> arg, cur |-> socket,
                ready |-> IF socket = 0 THEN "none" ELSE socks[socket].readyState])

\* the call returns undefined (every public operation is void) or the exception propagates
Return(st, op) ==
    IF st.raised THEN Log(st, [k |-> "throw", op |-> op])
    ELSE Log(st, [k |-> "return", op |-> op, value |-> Undefined])

\* service.connect() called directly
Connect ==
    /\ budget.api > 0
    /\ AlreadyConnected \/ budget.sockets > 0
    /\ LET r == connect(Call("connect", Undefined))
       IN  /\ Commit(Return(r.st, "connect"))
           /\ sockets' = r.sockets
           /\ socket' = r.socket
           /\ budget' = [budget EXCEPT !.api = @ - 1,
                                       !.sockets = IF AlreadyConnected THEN @ ELSE @ - 1]
    /\ UNCHANGED <<initialData, timers, now, uuids>>

\* service.disconnect() called directly
Disconnect ==
    /\ budget.api > 0
    /\ Commit(Return(Call("disconnect", Undefined), "disconnect"))
    /\ sockets' = disconnect(sockets, socket)
    /\ Spend("api")
    /\ UNCHANGED <<socket, initialData, timers, now, uuids>>

RECURSIVE SubscribeAll(_, _)
SubscribeAll(subs, i) ==
    IF i > Len(ChatEvents) THEN subs
    ELSE SubscribeAll(subscribe(subs, ChatEvents[i], ChatListener[ChatEvents[i]]), i + 1)

RECURSIVE UnsubscribeAll(_, _)
UnsubscribeAll(subs, i) ==
    IF i > Len(ChatEvents) THEN subs
    ELSE UnsubscribeAll(unsubscribe(subs, ChatEvents[i], ChatListener[ChatEvents[i]]), i + 1)

\* Chat's effect (Chat.tsx 24-89): subscribe the eight listeners, then connect
Mount ==
    /\ ~chat.mounted
    /\ budget.mounts > 0
    /\ AlreadyConnected \/ budget.sockets > 0
    /\ LET st0 == Call("mount", Undefined)
           st1 == [st0 EXCEPT !.subs = SubscribeAll(@, 1), !.chat = ChatInitial(TRUE)]
           r == connect(st1)
       IN  /\ Commit(Return(r.st, "mount"))
           /\ sockets' = r.sockets
           /\ socket' = r.socket
           /\ budget' = [budget EXCEPT !.mounts = @ - 1,
                                       !.sockets = IF AlreadyConnected THEN @ ELSE @ - 1]
    /\ UNCHANGED <<initialData, timers, now, uuids>>

\* the effect's cleanup (Chat.tsx 92-102): unsubscribe the eight listeners, then
\* disconnect; the component's state is gone
Unmount ==
    /\ chat.mounted
    /\ LET st0 == Call("unmount", Undefined)
           st1 == [st0 EXCEPT !.subs = UnsubscribeAll(@, 1), !.chat = ChatInitial(FALSE)]
       IN  Commit(Return(st1, "unmount"))
    /\ sockets' = disconnect(sockets, socket)
    /\ UNCHANGED <<socket, initialData, timers, now, uuids, budget>>

\* the transport of socket s opens: readyState becomes OPEN, then onopen runs
TransportOpen(s) ==
    /\ sockets[s].readyState = "CONNECTING"
    /\ LET socks == SetReadyState(sockets, s, "OPEN")
       IN  /\ sockets' = socks
           /\ Commit(Return(onopen(Callback("onopen", s, Undefined, socks), socks), "onopen"))
    /\ UNCHANGED <<socket, initialData, timers, now, uuids, budget>>

\* the transport of socket s closes: readyState becomes CLOSED, then onclose runs
TransportClose(s) ==
    /\ \/ sockets[s].readyState \in {"OPEN", "CLOSING"}
       \/ sockets[s].readyState = "CLOSED" /\ ~sockets[s].closeFired
    /\ LET socks == [sockets EXCEPT ![s] = [readyState |-> "CLOSED", closeFired |-> TRUE]]
       IN  /\ sockets' = socks
           /\ Commit(Return(onclose(Callback("onclose", s, Undefined, socks)), "onclose"))
    /\ UNCHANGED <<socket, initialData, timers, now, uuids, budget>>

\* the transport of socket s fails: readyState becomes CLOSED, then onerror runs
\* (the close callback follows as TransportClose)
TransportError(s) ==
    /\ budget.errors > 0
    /\ sockets[s].readyState \in {"CONNECTING", "OPEN", "CLOSING"}
    /\ LET socks == SetReadyState(sockets, s, "CLOSED")
       IN  /\ sockets' = socks
           /\ Commit(Return(onerror(Callback("onerror", s, "Event", socks), "Event"),
                             "onerror"))
    /\ Spend("errors")
    /\ UNCHANGED <<socket, initialData, timers, now, uuids>>

\* a frame arrives on socket s: onmessage runs
TransportMessage(s, data) ==
    /\ budget.frames > 0
    /\ sockets[s].readyState \in {"OPEN", "CLOSING"}
    /\ Commit(Return(onmessage(Callback("onmessage", s, data, sockets), data), "onmessage"))
    /\ uuids' = IF JSONparses(data) /\ DrawsUUID(JSONparse(data)) THEN uuids + 1 ELSE uuids
    /\ Spend("frames")
    /\ UNCHANGED <<sockets, socket, initialData, timers, now>>

\* ChatService.setInitialData (178-208)
SetInitialData(data) ==
    /\ budget.calls > 0
    /\ initialData' = data
    /\ LET id == Len(trace) + 1
           st0 == Call("setInitialData", data)
       IN  IF ContextMaySend
           THEN /\ Commit(Return(Send(st0, socket, InitDataFrame(data), id), "setInitialData"))
                /\ timers' = Append(timers, [data |-> data, due |-> TimerDue, call |-> id,
                                            sock |-> socket])
           ELSE /\ Commit(Return(st0, "setInitialData"))
                /\ timers' = timers
    /\ Spend("calls")
    /\ UNCHANGED <<sockets, socket, now, uuids>>

\* the setTimeout callback of setInitialData (192-206) runs
TimerFires ==
    /\ timers # <<>>
    /\ now >= Head(timers).due
    /\ LET t == Head(timers)
           st0 == Callback("timeout", t.sock, t.call, sockets)
       IN  IF TimerMaySend
           THEN Commit(Return(Send(st0, socket, TriggerFrame(t.data), t.call), "timeout"))
           ELSE Commit(Return(st0, "timeout"))
    /\ timers' = Tail(timers)
    /\ UNCHANGED <<sockets, socket, initialData, now, uuids, budget>>

\* ChatService.sendMessage (210-229)
SendMessage(message) ==
    /\ budget.calls > 0
    /\ LET st0 == Call("sendMessage", message)
       IN  IF SendRejected
           THEN Commit(Return(Log(st0, [k |-> "console", level |-> "error",
                                        msg |-> "WebSocket is not connected"]),
                              "sendMessage"))
           ELSE Commit(Return(Send(st0, socket, ChatFrame(message, initialData), 0),
                              "sendMessage"))
    /\ Spend("calls")
    /\ UNCHANGED <<sockets, socket, initialData, timers, now, uuids>>

\* another collaborator subscribes listener l to event ev
Subscribe(ev, l) ==
    /\ budget.subs > 0
    /\ \A i \in DOMAIN subscribers[ev] : subscribers[ev][i] # l
    /\ LET st0 == Call("subscribe", <<ev, l>>)
       IN  Commit(Return([st0 EXCEPT !.subs = subscribe(@, ev, l)], "subscribe"))
    /\ Spend("subs")
    /\ UNCHANGED <<sockets, socket, initialData, timers, now, uuids>>

\* another collaborator unsubscribes listener l from event ev
Unsubscribe(ev, l) ==
    /\ budget.subs > 0
    /\ LET st0 == Call("unsubscribe", <<ev, l>>)
       IN  Commit(Return([st0 EXCEPT !.subs = unsubscribe(@, ev, l)], "unsubscribe"))
    /\ Spend("subs")
    /\ UNCHANGED <<sockets, socket, initialData, timers, now, uuids>>

\* time passes
Tick ==
    /\ budget.ticks > 0
    /\ now' = now + TickMs
    /\ Spend("ticks")
    /\ UNCHANGED <<sockets, socket, subscribers, initialData, timers, uuids, chat, trace>>

(***************************************************************************)
(* Specifications.                                                         *)
(***************************************************************************)
\* the state after construction (22-28) with the environment's allowance b
InitWith(b) ==
    /\ sockets = <<>>
    /\ socket = 0
    /\ subscribers = [e \in WebSocketEvent |-> <<>>]
    /\ initialData = NoData
    /\ timers = <<>>
    /\ now = 0
    /\ uuids = 0
    /\ chat = ChatInitial(FALSE)
    /\ trace = <<>>
    /\ budget = b

Sockets == 1..Len(sockets)

\* every operation, each a little
Init ==
    InitWith([sockets |-> MaxSockets, frames |-> FewFrames, calls |-> 1, ticks |-> 1,
              mounts |-> 1, api |-> 1, errors |-> MaxErrors, subs |-> 0])

Next ==
    \/ Mount
    \/ Unmount
    \/ Connect
    \/ Disconnect
    \/ \E s \in Sockets : TransportOpen(s)
    \/ \E s \in Sockets : TransportClose(s)
    \/ \E s \in Sockets : TransportError(s)
    \/ \E s \in Sockets, data \in Alphabet : TransportMessage(s, data)
    \/ \E data \in FormData : SetInitialData(data)
    \/ \E message \in Texts : SendMessage(message)
    \/ TimerFires
    \/ Tick

Spec == Init /\ [][Next]_vars

\* the connection lifecycle: mounts, direct calls and transport callbacks
InitConn ==
    InitWith([sockets |-> MaxSockets, frames |-> 0, calls |-> 0, ticks |-> 0,
              mounts |-> MaxMounts, api |-> MaxApi, errors |-> MaxErrors, subs |-> 0])

NextConn ==
    \/ Mount
    \/ Unmount
    \/ Connect
    \/ Disconnect
    \/ \E s \in Sockets : TransportOpen(s)
    \/ \E s \in Sockets : TransportClose(s)
    \/ \E s \in Sockets : TransportError(s)

SpecConn == InitConn /\ [][NextConn]_vars

\* the handshake and the outbound path: sends, the deferred trigger, reconnects
InitHandshake ==
    InitWith([sockets |-> MaxSockets, frames |-> 0, calls |-> MaxCalls, ticks |-> MaxTicks,
              mounts |-> 1, api |-> MaxApi, errors |-> 0, subs |-> 0])

NextHandshake ==
    \/ Mount
    \/ Connect
    \/ Disconnect
    \/ \E s \in Sockets : TransportOpen(s)
    \/ \E s \in Sockets : TransportClose(s)
    \/ \E data \in FormData : SetInitialData(data)
    \/ \E message \in Texts : SendMessage(message)
    \/ TimerFires
    \/ Tick

SpecHandshake == InitHandshake /\ [][NextHandshake]_vars

\* the inbound streaming path with the Chat component listening
InitStream ==
    InitWith([sockets |-> 1, frames |-> MaxFrames, calls |-> 0, ticks |-> 0,
              mounts |-> 1, api |-> 0, errors |-> 0, subs |-> 0])

NextStream ==
    \/ Mount
    \/ Unmount
    \/ \E s \in Sockets : TransportOpen(s)
    \/ \E s \in Sockets : TransportClose(s)
    \/ \E s \in Sockets, data \in StreamAlphabet : TransportMessage(s, data)

SpecStream == InitStream /\ [][NextStream]_vars
\* the event bus with other collaborators' listeners beside Chat's
InitBus ==
    InitWith([sockets |-> 1, frames |-> FewFrames, calls |-> 0, ticks |-> 0,
              mounts |-> 1, api |-> 0, errors |-> 0, subs |-> MaxSubs])

NextBus ==
    \/ Mount
    \/ \E ev \in BusEvents, l \in BusListeners : Subscribe(ev, l)
    \/ \E ev \in BusEvents, l \in BusListeners : Unsubscribe(ev, l)
    \/ \E s \in Sockets : TransportOpen(s)
    \/ \E s \in Sockets, data \in BusAlphabet : TransportMessage(s, data)

SpecBus == InitBus /\ [][NextBus]_vars

\* the outbound composer: chat turns before and after the context is set
InitCompose ==
    InitWith([sockets |-> 1, frames |-> 0, calls |-> MaxTurns, ticks |-> MaxTicks,
              mounts |-> 1, api |-> 1, errors |-> 0, subs |-> 0])

NextCompose ==
    \/ Mount
    \/ Disconnect
    \/ \E s \in Sockets : TransportOpen(s)
    \/ \E s \in Sockets : TransportClose(s)
    \/ \E data \in FormData : SetInitialData(data)
    \/ \E message \in Turns : SendMessage(message)
    \/ TimerFires
    \/ Tick

SpecCompose == InitCompose /\ [][NextCompose]_vars

\* two streams whose frames interleave, with the Chat component listening
InitTwoStreams ==
    InitWith([sockets |-> 1, frames |-> ManyFrames, calls |-> 0, ticks |-> 0,
              mounts |-> 1, api |-> 0, errors |-> 0, subs |-> 0])

NextTwoStreams ==
    \/ Mount
    \/ \E s \in Sockets : TransportOpen(s)
    \/ \E s \in Sockets, data \in TwoStreams : TransportMessage(s, data)

SpecTwoStreams == InitTwoStreams /\ [][NextTwoStreams]_vars

\* the frames on the wire: every frame the service sends, with texts of all kinds
InitWire ==
    InitWith([sockets |-> 1, frames |-> 0, calls |-> MaxCalls, ticks |-> MaxTicks,
              mounts |-> 1, api |-> 0, errors |-> 0, subs |-> 0])

NextWire ==
    \/ Mount
    \/ \E s \in Sockets : TransportOpen(s)
    \/ \E data \in WireFormData : SetInitialData(data)
    \/ \E message \in WireTexts : SendMessage(message)
    \/ TimerFires
    \/ Tick

SpecWire == InitWire /\ [][NextWire]_vars

\* the inbound dispatch: one frame of every kind, well-formed or not
InitInbound ==
    InitWith([sockets |-> 1, frames |-> SomeFrames, calls |-> 0, ticks |-> 0,
              mounts |-> 1, api |-> 1, errors |-> 0, subs |-> 1])

NextInbound ==
    \/ Mount
    \/ Unmount
    \/ Disconnect
    \/ \E ev \in InboundEvents, l \in InboundListeners : Subscribe(ev, l)
    \/ \E s \in Sockets : TransportOpen(s)
    \/ \E s \in Sockets : TransportClose(s)
    \/ \E s \in Sockets, data \in Alphabet : TransportMessage(s, data)

SpecInbound == InitInbound /\ [][NextInbound]_vars

(***************************************************************************)
(* Reading the history.                                                    *)
(***************************************************************************)
\* the entries the step from the current state to the next one logs
NewEntries == SubSeq(trace', Len(trace) + 1, Len(trace'))

\* the step is an onmessage callback
MessageStep ==
    /\ Len(trace') > Len(trace)
    /\ trace'[Len(trace) + 1].k = "callback"
    /\ trace'[Len(trace) + 1].op = "onmessage"

\* the entry is the arrival of a well-formed frame
IsFrame(e) == e.k = "callback" /\ e.op = "onmessage" /\ JSONparses(e.arg)

\* the identifier a stream frame is about
FrameId(e) == OrElse(Get(JSONparse(e.arg), "message_id"), "")

FrameType(e) == Get(JSONparse(e.arg), "type")

\* the bus events among the entries es
Notified(es) == SelectSeq(es, LAMBDA e : e.k = "notify")

\* the frames that arrived carrying identifier K, in arrival order
FramesOf(K) == SelectSeq(trace, LAMBDA e : IsFrame(e) /\ FrameId(e) = K)

\* the bus events of kind ev about identifier K, in order
EventsOf(ev, K) == SelectSeq(trace, LAMBDA e : e.k = "notify" /\ e.ev = ev /\ e.data.id = K)

\* the messages of the Chat component with identifier K
MessagesOf(K) == SelectSeq(chat.messages, LAMBDA m : m.id = K)

RECURSIVE Concat(_)
Concat(strings) ==
    IF strings = <<>> THEN "" ELSE Head(strings) \o Concat(Tail(strings))

\* the position of the first entry satisfying P; 0 when there is none
FirstIndex(P(_)) ==
    IF \E i \in DOMAIN trace : P(trace[i])
    THEN CHOOSE i \in DOMAIN trace : P(trace[i]) /\ \A j \in 1..(i - 1) : ~P(trace[j])
    ELSE 0

\* Chat was mounted when position i was logged and has stayed mounted since
MountedSince(i) ==
    /\ chat.mounted
    /\ \E j \in 1..(i - 1) : trace[j].k = "call" /\ trace[j].op = "mount"
    /\ \A j \in i..Len(trace) : ~(trace[j].k = "call" /\ trace[j].op \in {"mount", "unmount"})

(***************************************************************************)
(* C1.  A complete stream start(K,c0), chunk(K,d1) .. chunk(K,dn), end(K)  *)
(* on one connection, K used by no other frame and Chat listening          *)
(* throughout: exactly one stream_start and one stream_end event for K,    *)
(* one stream_chunk event {id: K, chunk: di} per chunk in arrival order,   *)
(* and Chat holds one message K with text c0+d1+...+dn, isStreaming false. *)
(***************************************************************************)
CompleteStream(K) ==
    LET fs == FramesOf(K)
        n == Len(fs)
    IN  /\ n >= 2
        /\ FrameType(fs[1]) = "stream_start"
        /\ FrameType(fs[n]) = "stream_end"
        /\ \A i \in 2..(n - 1) : FrameType(fs[i]) = "stream_chunk"
        /\ \A i \in 1..n : fs[i].sock = fs[1].sock
        /\ MountedSince(FirstIndex(LAMBDA e : IsFrame(e) /\ FrameId(e) = K))

\* the deltas of the chunk frames of K, as handleStreamChunk reads them
Deltas(K) ==
    LET fs == SelectSeq(FramesOf(K), LAMBDA e : FrameType(e) = "stream_chunk")
    IN  [i \in DOMAIN fs |-> OrElse(Get(JSONparse(fs[i].arg), "content"), "")]

StreamReassembled ==
    \A K \in Ids :
        CompleteStream(K) =>
            /\ Len(EventsOf(STREAM_START, K)) = 1
            /\ Len(EventsOf(STREAM_END, K)) = 1
            /\ [i \in DOMAIN EventsOf(STREAM_CHUNK, K) |-> EventsOf(STREAM_CHUNK, K)[i].data]
                 = [i \in DOMAIN Deltas(K) |-> [id |-> K, chunk |-> Deltas(K)[i]]]
            /\ Len(MessagesOf(K)) = 1
            /\ MessagesOf(K)[1].text
                 = Get(JSONparse(FramesOf(K)[1].arg), "content") \o Concat(Deltas(K))
            /\ MessagesOf(K)[1].isStreaming = FALSE

StreamReassembledWitness ==
    \E K \in Ids :
        /\ CompleteStream(K)
        /\ Len(Deltas(K)) = 2
        /\ Deltas(K)[1] # Deltas(K)[2]

(***************************************************************************)
(* C2.  sendMessage while the connection is not Open.                      *)
(***************************************************************************)
SendMessageStep ==
    /\ Len(trace') > Len(trace)
    /\ trace'[Len(trace) + 1].k = "call"
    /\ trace'[Len(trace) + 1].op = "sendMessage"

NotOpen == ReadyState(socket) # "OPEN"

SentIn(es) == SelectSeq(es, LAMBDA e : e.k = "send")

IsSend(e, type) == e.k = "send" /\ JSONparse(e.data).type = type

\* the frame is a trigger: a message whose content embeds "init_reasoning"
IsTrigger(e) ==
    /\ IsSend(e, "message")
    /\ JSONparse(JSONparse(e.data).content).content = "init_reasoning"

\* the setInitialData calls made while the connection was Open
OpenContextCalls ==
    {i \in DOMAIN trace :
        trace[i].k = "call" /\ trace[i].op = "setInitialData" /\ trace[i].ready = "OPEN"}

InitSends(i) == {j \in DOMAIN trace : IsSend(trace[j], "init_data") /\ trace[j].call = i}

TriggerSends(i) == {j \in DOMAIN trace : IsTrigger(trace[j]) /\ trace[j].call = i}

\* the deferred step of call i ran while the connection of the call was still Open
DelayElapsedOpen(i) ==
    \E j \in DOMAIN trace :
        /\ trace[j].k = "callback" /\ trace[j].op = "timeout" /\ trace[j].arg = i
        /\ trace[j].cur = trace[i].cur
        /\ trace[j].ready = "OPEN"

CarriesContext(obj, data) ==
    /\ obj.sector = data.sector
    /\ obj.check_size = data.checkSize
    /\ obj.geographical_location = data.geographicalLocation

\* C3: each setInitialData call made while Open sends exactly one init_data frame with
\* the context fields inside the call; its trigger frame (type message, content
\* "init_reasoning" plus the same fields) is sent at most once, after the init_data
\* frame and no earlier than 500 ms after it, and exactly once when the connection is
\* still Open as the delay elapses.
ContextSequence ==
    \A i \in OpenContextCalls :
        /\ InitSends(i) = {i + 1}
        /\ trace[i + 1].sock = trace[i].cur
        /\ CarriesContext(JSONparse(trace[i + 1].data), trace[i].arg)
        /\ trace[i + 2].k = "return"
        /\ Cardinality(TriggerSends(i)) <= 1
        /\ \A j \in TriggerSends(i) :
            /\ j > i + 1
            /\ trace[j].at >= trace[i + 1].at + 500
            /\ CarriesContext(JSONparse(JSONparse(trace[j].data).content), trace[i].arg)
        /\ DelayElapsedOpen(i) =>
            \E j \in TriggerSends(i) : trace[j].sock = trace[i].cur

ContextSequenceWitness ==
    \E i \in OpenContextCalls :
        /\ DelayElapsedOpen(i)
        /\ \E j \in TriggerSends(i) : trace[j].sock = trace[i].cur /\ trace[j].at >= 500

\* C4: the trigger frame of a setInitialData call is sent, if at all, on the connection
\* the call was made on; once that connection has left Open the trigger is sent on no
\* transport, not even on a connection opened since.
TriggerOnlyOnItsConnection ==
    \A i \in OpenContextCalls :
        \A j \in TriggerSends(i) : trace[j].sock = trace[i].cur

(***************************************************************************)
(* C5, C6.  The connection lifecycle.                                      *)
(***************************************************************************)
AuthSendsOn(s) == {j \in DOMAIN trace : IsSend(trace[j], "auth") /\ trace[j].sock = s}

\* C5: in every open callback exactly one auth frame is sent on the transport that
\* opened, inside the callback and before the connected event is notified; connected is
\* never notified without it.
AuthOncePerOpen ==
    \A i \in DOMAIN trace :
        trace[i].k = "callback" /\ trace[i].op = "onopen" =>
            /\ IsSend(trace[i + 1], "auth")
            /\ trace[i + 1].sock = trace[i].sock
            /\ trace[i + 2].k = "notify"
            /\ trace[i + 2].ev = CONNECTED
            /\ Cardinality(AuthSendsOn(trace[i].sock)) = 1

LiveTransports == {s \in Sockets : sockets[s].readyState \in {"CONNECTING", "OPEN"}}

\* C6: at most one transport created by the service is live (Connecting or Open) at
\* any time.
AtMostOneLiveTransport == Cardinality(LiveTransports) <= 1

(***************************************************************************)
(* C7, C8, C9.  Stream frames that arrive out of sequence.                 *)
(***************************************************************************)
\* the frame whose arrival is the step's callback
StepFrame == trace'[Len(trace) + 1]

\* the frame names an identifier
HasId(e) == OrElse(Get(JSONparse(e.arg), "message_id"), "") # ""

\* the step is the arrival of a stream frame of one of the types, naming an identifier
StreamFrameStep(types) ==
    /\ MessageStep
    /\ IsFrame(StepFrame)
    /\ FrameType(StepFrame) \in types
    /\ HasId(StepFrame)

\* the positions of the stream_start and stream_end frames of K on socket s
Brackets(K, s) ==
    {j \in DOMAIN trace :
        /\ IsFrame(trace[j])
        /\ trace[j].sock = s
        /\ FrameId(trace[j]) = K
        /\ FrameType(trace[j]) \in {"stream_start", "stream_end"}}

\* the Stream Reconstructor's state of K on socket s: Absent, Streaming or Finalized
StreamState(K, s) ==
    IF Brackets(K, s) = {} THEN "Absent"
    ELSE LET last == CHOOSE j \in Brackets(K, s) : \A m \in Brackets(K, s) : m <= j
         IN  IF FrameType(trace[last]) = "stream_start" THEN "Streaming"
             ELSE IF \E j \in Brackets(K, s) : FrameType(trace[j]) = "stream_start"
                  THEN "Finalized" ELSE "Absent"

\* no stream_start for K has arrived on socket s
NoPriorStart(K, s) ==
    \A j \in Brackets(K, s) : FrameType(trace[j]) # "stream_start"

OrphanStep ==
    /\ StreamFrameStep({"stream_chunk", "stream_end"})
    /\ NoPriorStart(FrameId(StepFrame), StepFrame.sock)

ForwardedPayload(e) ==
    IF FrameType(e) = "stream_chunk"
    THEN [id |-> FrameId(e), chunk |-> OrElse(Get(JSONparse(e.arg), "content"), "")]
    ELSE [id |-> FrameId(e)]

DuplicateStartIgnored ==
    [][/\ StreamFrameStep({"stream_start"})
       /\ chat.mounted
       /\ StreamState(FrameId(StepFrame), StepFrame.sock) = "Streaming"
       =>
            /\ Notified(NewEntries) = <<>>
            /\ chat'.messages = chat.messages]_vars

\* C9: once stream_end(K) has been processed, a later stream_chunk or stream_end for
\* K notifies no bus event and the text of message K in Chat does not change
\* (stated for the frames that arrive while Chat is subscribed).
LateFrameIgnored ==
    [][/\ StreamFrameStep({"stream_chunk", "stream_end"})
       /\ chat.mounted
       /\ StreamState(FrameId(StepFrame), StepFrame.sock) = "Finalized"
       =>
            /\ Notified(NewEntries) = <<>>
            /\ \A n \in DOMAIN chat.messages :
                chat.messages[n].id = FrameId(StepFrame) =>
                    chat'.messages[n].text = chat.messages[n].text]_vars

(***************************************************************************)
(* C10.  Listener failures.                                                *)
(***************************************************************************)
\* the listener invocations that directly follow the notify entry at position i
InvokedBy(i) ==
    {trace[j].l : j \in {m \in (i + 1)..Len(trace) :
                            \A n \in (i + 1)..m : trace[n].k = "invoke"}}

\* C10: when a listener raises during a notify call, every other listener registered
\* for the event at the time of the call is still invoked.
ListenerFailureIsolated ==
    \A i \in DOMAIN trace :
        trace[i].k = "notify" /\ InvokedBy(i) \cap RaisingListeners # {} =>
            \A n \in DOMAIN trace[i].listeners : trace[i].listeners[n] \in InvokedBy(i)

(***************************************************************************)
(* C11, C12.  What a notification invokes.                                 *)
(***************************************************************************)
\* the listeners the notify entry at position i invoked, in the order of invocation
InvocationsOf(i) ==
    LET last == CHOOSE m \in i..Len(trace) :
                    /\ \A n \in (i + 1)..m : trace[n].k = "invoke"
                    /\ m = Len(trace) \/ trace[m + 1].k # "invoke"
    IN  [n \in 1..(last - i) |-> trace[i + n].l]

\* no listener registered when the notify entry at position i started raises
NoneRaises(i) ==
    \A n \in DOMAIN trace[i].listeners : trace[i].listeners[n] \notin RaisingListeners

\* C11: notify iterates over the listener list as it was when the call started: every
\* listener registered at that moment is invoked exactly once, in order, even when a
\* listener subscribes or unsubscribes for the same event during the notification
\* (stated for the notifications in which no listener raises).
NotifyIteratesSnapshot ==
    \A i \in DOMAIN trace :
        trace[i].k = "notify" /\ NoneRaises(i) => InvocationsOf(i) = trace[i].listeners

\* the list s without the first occurrence of l
RemoveFirst(s, l) ==
    IF \A n \in DOMAIN s : s[n] # l THEN s
    ELSE LET first == CHOOSE n \in DOMAIN s : s[n] = l /\ \A m \in 1..(n - 1) : s[m] # l
         IN  SubSeq(s, 1, first - 1) \o SubSeq(s, first + 1, Len(s))

\* what the history entry e does to the list r of listeners registered for ev
Registers(r, e, ev) ==
    CASE e.k = "call" /\ e.op = "subscribe" /\ e.arg[1] = ev -> Append(r, e.arg[2])
      [] e.k = "call" /\ e.op = "unsubscribe" /\ e.arg[1] = ev -> RemoveFirst(r, e.arg[2])
      [] e.k = "call" /\ e.op = "mount" -> Append(r, ChatListener[ev])
      [] e.k = "call" /\ e.op = "unmount" -> RemoveFirst(r, ChatListener[ev])
      [] e.k = "invoke" /\ e.ev = ev /\ e.l \in SelfRemovingListeners -> RemoveFirst(r, e.l)
      [] e.k = "invoke" /\ e.ev = ev /\ e.l \in AddingListeners -> Append(r, "ok2")
      [] OTHER -> r

\* the listeners registered for ev after the first i entries of the history, in the
\* order in which they were subscribed
RECURSIVE RegisteredAfter(_, _)
RegisteredAfter(ev, i) ==
    IF i = 0 THEN <<>> ELSE Registers(RegisteredAfter(ev, i - 1), trace[i], ev)

\* C12: after any sequence of subscribe and unsubscribe calls, notify(event, payload)
\* invokes exactly the listeners registered for the event at that moment, each with
\* the payload, in the order in which they were subscribed, and no listener that is
\* registered only for another event.
NotifyInvokesRegistered ==
    \A i \in DOMAIN trace :
        trace[i].k = "notify" =>
            /\ trace[i].listeners = RegisteredAfter(trace[i].ev, i - 1)
            /\ InvocationsOf(i) = trace[i].listeners
            /\ \A n \in 1..Len(InvocationsOf(i)) :
                /\ trace[i + n].ev = trace[i].ev
                /\ trace[i + n].data = trace[i].data

\* the same for the notifications in which no registered listener raises or edits
\* the listener list
QuietNotification(i) ==
    \A n \in DOMAIN trace[i].listeners :
        trace[i].listeners[n] \in ChatListeners \cup PlainListeners

QuietNotifyInvokesRegistered ==
    \A i \in DOMAIN trace :
        trace[i].k = "notify" /\ QuietNotification(i) =>
            /\ trace[i].listeners = RegisteredAfter(trace[i].ev, i - 1)
            /\ InvocationsOf(i) = trace[i].listeners
            /\ \A n \in 1..Len(InvocationsOf(i)) :
                /\ trace[i + n].ev = trace[i].ev
                /\ trace[i + n].data = trace[i].data

(***************************************************************************)
(* C13, C19, C20.  Frames that are malformed, sunk or unknown.             *)
(***************************************************************************)
\* the payload cannot be decoded: JSON.parse rejects it, or it is the JSON null, whose
\* type cannot be read
Malformed(data) == ~JSONparses(data) \/ JSONparse(data) = Null

\* the types the switch forwards to the bus, and the event each becomes
ForwardedTypes ==
    {"stream_start", "stream_chunk", "stream_end", "typing", "error", "message", "greeting"}

EventOf(type) ==
    CASE type = "stream_start" -> STREAM_START
      [] type = "stream_chunk" -> STREAM_CHUNK
      [] type = "stream_end" -> STREAM_END
      [] type = "typing" -> TYPING
      [] type = "error" -> ERROR
      [] type \in {"message", "greeting"} -> MESSAGE_RECEIVED

\* the step is the arrival of a well-formed frame of a forwarded type
ForwardedStep ==
    /\ MessageStep
    /\ ~Malformed(StepFrame.arg)
    /\ FrameType(StepFrame) \in ForwardedTypes

\* the frame is processed: the first bus event of the step is the one its type maps to
Processed ==
    /\ Notified(NewEntries) # <<>>
    /\ Notified(NewEntries)[1].ev = EventOf(FrameType(StepFrame))

\* a frame satisfying P arrived earlier on the socket of the step's frame
ArrivedBefore(P(_)) ==
    \E i \in DOMAIN trace :
        /\ trace[i].k = "callback" /\ trace[i].op = "onmessage"
        /\ trace[i].sock = StepFrame.sock
        /\ P(trace[i])

CloseStep ==
    /\ Len(trace') > Len(trace)
    /\ trace'[Len(trace) + 1].k = "callback"
    /\ trace'[Len(trace) + 1].op = "onclose"

\* C14: on every transport-close callback, from any prior state, the connection
\* becomes Closed, exactly one disconnected event is notified and the transport
\* handle is released: afterwards the service holds no handle to the closed
\* transport.
CloseReleasesHandle ==
    [][CloseStep =>
            /\ sockets'[StepFrame.sock].readyState = "CLOSED"
            /\ Len(Notified(NewEntries)) = 1
            /\ Notified(NewEntries)[1].ev = DISCONNECTED
            /\ socket' # StepFrame.sock]_vars

\* the calls of disconnect() (directly or by Chat's cleanup) made while a transport
\* handle existed and followed by no connect()
FinalDisconnects ==
    {i \in DOMAIN trace :
        /\ trace[i].k = "call" /\ trace[i].op \in {"disconnect", "unmount"}
        /\ trace[i].cur # 0
        /\ \A j \in (i + 1)..Len(trace) :
            ~(trace[j].k = "call" /\ trace[j].op \in {"connect", "mount"})}

\* C15: disconnect() called in any state in which a transport handle exists, also
\* while the transport is Connecting, requests the close of the transport; after it,
\* with no later connect(), the connection never becomes Open, no frame (auth,
\* deferred trigger) is sent and no connected event is notified.
DisconnectIsFinal ==
    \A i \in FinalDisconnects :
        /\ sockets[trace[i].cur].readyState \in {"CLOSING", "CLOSED"}
        /\ \A j \in (i + 1)..Len(trace) :
            /\ ~(trace[j].k = "callback" /\ trace[j].op = "onopen")
            /\ trace[j].k # "send"
            /\ ~(trace[j].k = "notify" /\ trace[j].ev = CONNECTED)

(***************************************************************************)
(* C16, C17, C18.  The session context on the wire.                        *)
(***************************************************************************)
\* the context fields an outbound object carries
ContextFields(obj) ==
    [sector |-> obj.sector, check_size |-> obj.check_size,
     geographical_location |-> obj.geographical_location]

\* the object embedded in the content of an outbound frame of type message
Embedded(e) == JSONparse(JSONparse(e.data).content)

\* C16: the session context is never partially applied: every trigger frame sent on a
\* connection is preceded, on that same connection, by an init_data frame carrying
\* the same context fields.
TriggerFollowsItsInitData ==
    \A j \in DOMAIN trace :
        IsTrigger(trace[j]) =>
            \E i \in 1..(j - 1) :
                /\ IsSend(trace[i], "init_data")
                /\ trace[i].sock = trace[j].sock
                /\ ContextFields(JSONparse(trace[i].data)) = ContextFields(Embedded(trace[j]))

\* the context fields of the form data handed to setInitialData
FieldsOf(data) ==
    [sector |-> data.sector, check_size |-> data.checkSize,
     geographical_location |-> data.geographicalLocation]

\* the first setInitialData call made on connection c
FirstContextCalls ==
    {i \in DOMAIN trace :
        /\ trace[i].k = "call" /\ trace[i].op = "setInitialData" /\ trace[i].cur # 0
        /\ \A j \in 1..(i - 1) :
            ~(trace[j].k = "call" /\ trace[j].op = "setInitialData"
                /\ trace[j].cur = trace[i].cur)}

\* C17: the session context is immutable once set on a connection: after the first
\* setInitialData of a connection no later operation, a second setInitialData
\* included, changes the stored context while that connection is the current one,
\* and every message frame sent on it afterwards (pending trigger, chat turns)
\* carries the fields of that first context.
ContextImmutable ==
    \A i \in FirstContextCalls :
        /\ socket = trace[i].cur => initialData = trace[i].arg
        /\ \A j \in (i + 1)..Len(trace) :
            IsSend(trace[j], "message") /\ trace[j].sock = trace[i].cur =>
                ContextFields(Embedded(trace[j])) = FieldsOf(trace[i].arg)

\* the context fields a chat turn carries when the stored context is data
AmbientFields(data) ==
    IF data = NoData THEN [sector |-> "", check_size |-> "", geographical_location |-> ""]
    ELSE FieldsOf(data)

\* C18: every sendMessage(text) performed while Open sends exactly one frame, of type
\* message, on the current transport; its content embeds text together with the
\* current context fields sector, check_size and geographical_location (each the
\* empty string when no context has been set), on every turn; the stored session
\* context is left unchanged.
ChatTurnCarriesContext ==
    [][SendMessageStep /\ ~NotOpen =>
            /\ Len(NewEntries) = 3
            /\ Len(SentIn(NewEntries)) = 1
            /\ SentIn(NewEntries)[1].sock = socket
            /\ IsSend(SentIn(NewEntries)[1], "message")
            /\ Embedded(SentIn(NewEntries)[1]).content = StepFrame.arg
            /\ ContextFields(Embedded(SentIn(NewEntries)[1])) = AmbientFields(initialData)
            /\ NewEntries[3].k = "return"
            /\ UNCHANGED initialData]_vars

\* the chat turns sent so far
ChatTurns ==
    SelectSeq(trace, LAMBDA e : IsSend(e, "message") /\ Embedded(e).content \in Turns)

\* a turn was sent before any context was set, and two more after it was set, all
\* three on one connection
ChatTurnWitness ==
    /\ Len(ChatTurns) = 3
    /\ ContextFields(Embedded(ChatTurns[1])) = AmbientFields(NoData)
    /\ ContextFields(Embedded(ChatTurns[2])) = AmbientFields(initialData)
    /\ ContextFields(Embedded(ChatTurns[3])) = AmbientFields(initialData)
    /\ Embedded(ChatTurns[2]).content # Embedded(ChatTurns[3]).content
    /\ initialData # NoData

(***************************************************************************)
(* C19, C20.  Frames the switch sinks: system_message and unknown types.   *)
(***************************************************************************)
\* the step is the arrival of a well-formed frame whose type satisfies P
TypedStep(P(_)) ==
    /\ MessageStep
    /\ ~Malformed(StepFrame.arg)
    /\ P(FrameType(StepFrame))

\* the type is none of the tags the switch handles (a frame without type included)
Unhandled(type) == type \notin ForwardedTypes \cup {"system_message"}

\* C19: an inbound system_message frame notifies no bus event at all (no
\* message_received, no error), raises nothing and changes no state of the service
\* or of its listeners.
SystemMessageSunk ==
    [][TypedStep(LAMBDA type : type = "system_message") =>
            /\ Notified(NewEntries) = <<>>
            /\ trace'[Len(trace')].k = "return"
            /\ UNCHANGED <<sockets, socket, subscribers, initialData, timers, uuids, chat>>]_vars

\* a system_message arrived on the open connection while Chat listened, and Chat
\* shows no message
SystemMessageWitness ==
    /\ chat.mounted
    /\ chat.messages = <<>>
    /\ \E i \in DOMAIN trace :
        /\ IsFrame(trace[i]) /\ ~Malformed(trace[i].arg)
        /\ FrameType(trace[i]) = "system_message"
        /\ trace[i].ready = "OPEN"
        /\ trace[i + 1].k = "console"
        /\ trace[i + 2].k = "return"
        /\ subscribers[MESSAGE_RECEIVED] # <<>>

\* C20: a well-formed inbound frame whose type is not one of the handled tags
\* notifies no bus event (not even error), raises nothing and leaves the connection
\* state and the transport handle as they were; frames that arrive after it are
\* processed normally.
UnknownTypeIgnored ==
    [][/\ TypedStep(Unhandled) =>
            /\ Notified(NewEntries) = <<>>
            /\ trace'[Len(trace')].k = "return"
            /\ UNCHANGED <<sockets, socket, subscribers, initialData, timers, chat>>
       /\ ForwardedStep
            /\ ArrivedBefore(LAMBDA e : ~Malformed(e.arg) /\ Unhandled(FrameType(e)))
            => Processed]_vars

\* a frame of an unknown type arrived on the open connection, and a stream_start
\* that arrived after it became a message of Chat
UnknownTypeWitness ==
    \E i, j \in DOMAIN trace :
        /\ i < j
        /\ IsFrame(trace[i]) /\ FrameType(trace[i]) = "pong"
        /\ trace[i].ready = "OPEN"
        /\ trace[i + 1].k = "console"
        /\ trace[i + 2].k = "return"
        /\ IsFrame(trace[j]) /\ trace[j].sock = trace[i].sock
        /\ FrameType(trace[j]) = "stream_start"
        /\ trace[j + 1].k = "notify" /\ trace[j + 1].ev = STREAM_START
        /\ ReadyState(trace[i].sock) = "OPEN"
        /\ Len(chat.messages) = 1

(***************************************************************************)
(* C21.  The non-streaming frames.                                         *)
(***************************************************************************)
SingleShotTypes == {"message", "greeting", "typing", "error"}

\* the frame object whose arrival is the step's callback
StepMessage == JSONparse(StepFrame.arg)

\* the payload the event carries is the one the frame's type calls for
SingleShotPayload(data) ==
    CASE FrameType(StepFrame) \in {"message", "greeting"} ->
            /\ data.text = Get(StepMessage, "content")
            /\ data.sender = Get(StepMessage, "sender")
      [] FrameType(StepFrame) = "error" -> data = Get(StepMessage, "content")
      [] OTHER -> TRUE

\* C21: each inbound non-streaming frame maps to exactly one bus event and no other:
\* message and greeting notify one message_received carrying the frame's content and
\* sender, typing one typing event, error one error event whose payload is the
\* frame's content.
SingleShotMapsToOneEvent ==
    [][TypedStep(LAMBDA type : type \in SingleShotTypes) =>
            /\ Len(Notified(NewEntries)) = 1
            /\ Notified(NewEntries)[1].ev = EventOf(FrameType(StepFrame))
            /\ SingleShotPayload(Notified(NewEntries)[1].data)]_vars

\* the same for the frames that arrive while no listener that raises is registered
\* for the event the frame maps to
QuietSingleShotMapsToOneEvent ==
    [][/\ TypedStep(LAMBDA type : type \in SingleShotTypes)
       /\ \A n \in DOMAIN subscribers[EventOf(FrameType(StepFrame))] :
            subscribers[EventOf(FrameType(StepFrame))][n] \notin RaisingListeners
       =>
            /\ Len(Notified(NewEntries)) = 1
            /\ Notified(NewEntries)[1].ev = EventOf(FrameType(StepFrame))
            /\ SingleShotPayload(Notified(NewEntries)[1].data)]_vars

(***************************************************************************)
(* C22, C23.  connect() on an open connection; transport errors.           *)
(***************************************************************************)
\* the step is a call of connect(), directly or by Chat's effect
ConnectStep ==
    /\ Len(trace') > Len(trace)
    /\ trace'[Len(trace) + 1].k = "call"
    /\ trace'[Len(trace) + 1].op \in {"connect", "mount"}

\* C22: connect() called while the connection is already Open is a no-op: no new
\* transport is created, the handle and the transports (with their callbacks) are
\* unchanged, no frame is sent and no bus event is notified.
ConnectWhileOpenIsNoOp ==
    [][ConnectStep /\ ~NotOpen =>
            /\ UNCHANGED <<sockets, socket, initialData, timers>>
            /\ \A n \in DOMAIN NewEntries : NewEntries[n].k \notin {"new", "send", "notify"}
            /\ trace'[Len(trace')].k = "return"
            /\ StepFrame.op = "connect" => UNCHANGED <<subscribers, chat>>]_vars

\* connect() was called on the open connection, directly and by a mounting Chat
ConnectWhileOpenWitness ==
    \E i, j \in DOMAIN trace :
        /\ trace[i].k = "call" /\ trace[i].op = "connect" /\ trace[i].ready = "OPEN"
        /\ trace[i + 1].k = "console"
        /\ trace[j].k = "call" /\ trace[j].op = "mount" /\ trace[j].ready = "OPEN"
        /\ trace[j + 1].k = "console"
        /\ ReadyState(socket) = "OPEN"

\* the step is the error callback of a transport
ErrorStep ==
    /\ Len(trace') > Len(trace)
    /\ trace'[Len(trace) + 1].k = "callback"
    /\ trace'[Len(trace) + 1].op = "onerror"

\* C23: a transport-error callback notifies exactly one error event carrying the
\* error info and by itself changes neither the connection state nor the transport
\* handle: the transports change only by the platform's own transition of the
\* failed one, no disconnected event is notified and Chat's isConnected is as
\* before; the disconnected event comes only from a close callback.
ErrorCallbackOnlyReports ==
    [][/\ ErrorStep =>
            /\ Len(Notified(NewEntries)) = 1
            /\ Notified(NewEntries)[1].ev = ERROR
            /\ Notified(NewEntries)[1].data = StepFrame.arg
            /\ \A n \in DOMAIN NewEntries : NewEntries[n].k \notin {"new", "send"}
            /\ socket' = socket
            /\ sockets' = SetReadyState(sockets, StepFrame.sock, "CLOSED")
            /\ chat'.isConnected = chat.isConnected
            /\ UNCHANGED <<initialData, timers, subscribers>>
       /\ (\E n \in DOMAIN NewEntries :
                NewEntries[n].k = "notify" /\ NewEntries[n].ev = DISCONNECTED) => CloseStep]_vars

\* the open transport failed while Chat listened: Chat shows the error and, the
\* close callback not having run yet, still shows the connection
ErrorCallbackWitness ==
    /\ chat.mounted /\ chat.isConnected /\ chat.connectionError
    /\ \E i \in DOMAIN trace :
        /\ trace[i].k = "callback" /\ trace[i].op = "onerror"
        /\ trace[i].sock = socket
        /\ trace[i + 1].k = "notify" /\ trace[i + 1].ev = ERROR
        /\ trace[i + 2].k = "invoke" /\ trace[i + 2].l = "onError"
        /\ ~sockets[socket].closeFired

(***************************************************************************)
(* C24.  Encoding and decoding.                                            *)
(***************************************************************************)
\* the frames the service has sent
SentFrames == {trace[i].data : i \in {j \in DOMAIN trace : trace[j].k = "send"}}

\* decoding the encoded frame yields an object with the properties of the encoded
\* one, each with the same string value
RoundTrips(t) ==
    /\ Parse(Text(t)).ok
    /\ Parse(Text(t)).value = Values(t)

\* C24: for every frame the service sends (auth, init_data, chat turn, trigger),
\* decoding the encoded frame yields a message with the same type and the same
\* field values as the object that was encoded; the content of a chat turn or of a
\* trigger, decoded in turn, yields the embedded object.
FramesRoundTrip ==
    \A t \in SentFrames :
        /\ RoundTrips(t)
        /\ JSONparse(t).type = "message" => RoundTrips(JSONparse(t).content)

\* all four kinds of frame were sent, among them a chat turn whose text holds a
\* quotation mark and an init_data frame whose fields hold special characters
FramesRoundTripWitness ==
    /\ AuthFrame \in SentFrames
    /\ \E t \in SentFrames :
        /\ JSONparse(t).type = "init_data"
        /\ JSONparse(t).sector = "a\"b"
    /\ \E t \in SentFrames :
        /\ JSONparse(t).type = "message"
        /\ JSONparse(JSONparse(t).content).content = "init_reasoning"
    /\ \E t \in SentFrames :
        /\ JSONparse(t).type = "message"
        /\ JSONparse(JSONparse(t).content).content = "a\"b"

(***************************************************************************)
(* C25.  Streams that interleave.                                          *)
(***************************************************************************)
\* the frames of K so far are a start, then chunks, then at most one end, all on one
\* socket and all while Chat listened
ProperStream(K) ==
    LET fs == FramesOf(K)
        n == Len(fs)
    IN  /\ n >= 1
        /\ FrameType(fs[1]) = "stream_start"
        /\ \A i \in 2..(n - 1) : FrameType(fs[i]) = "stream_chunk"
        /\ n >= 2 => FrameType(fs[n]) \in {"stream_chunk", "stream_end"}
        /\ \A i \in 1..n : fs[i].sock = fs[1].sock
        /\ MountedSince(FirstIndex(LAMBDA e : IsFrame(e) /\ FrameId(e) = K))

\* the text and the flag of message K are those of its own frames
OwnText(K) ==
    /\ Len(MessagesOf(K)) = 1
    /\ MessagesOf(K)[1].text
         = Get(JSONparse(FramesOf(K)[1].arg), "content") \o Concat(Deltas(K))
    /\ MessagesOf(K)[1].isStreaming
         = (FrameType(FramesOf(K)[Len(FramesOf(K))]) # "stream_end")

\* a chunk or an end leaves every message with another identifier as it was
OthersUntouched ==
    StreamFrameStep({"stream_chunk", "stream_end"}) =>
        /\ Len(chat'.messages) = Len(chat.messages)
        /\ \A n \in DOMAIN chat.messages :
            chat.messages[n].id # FrameId(StepFrame) => chat'.messages[n] = chat.messages[n]

\* C25: when the frames of two streams with different identifiers interleave in any
\* way, a chunk or end for one never changes the text or the isStreaming flag of the
\* message of the other, and the text of each message is its own initial content
\* followed by its own deltas in arrival order.
StreamsIndependent ==
    /\ [](\A K \in Ids : ProperStream(K) => OwnText(K))
    /\ [][OthersUntouched]_vars

\* the position in the history of the n-th frame of K
FramePosition(K, n) ==
    CHOOSE i \in DOMAIN trace :
        /\ IsFrame(trace[i]) /\ FrameId(trace[i]) = K
        /\ Len(SelectSeq(SubSeq(trace, 1, i), LAMBDA e : IsFrame(e) /\ FrameId(e) = K)) = n

\* both streams are complete, each with a chunk, and each started before the other
\* ended
StreamsIndependentWitness ==
    /\ CompleteStream("m1") /\ CompleteStream("m2")
    /\ Len(Deltas("m1")) = 1 /\ Len(Deltas("m2")) = 1
    /\ FramePosition("m1", 1) < FramePosition("m2", 3)
    /\ FramePosition("m2", 1) < FramePosition("m1", 2)
    /\ FramePosition("m1", 2) < FramePosition("m2", 2)
    /\ FramePosition("m2", 2) < FramePosition("m1", 3)
    /\ MessagesOf("m1")[1].text = "Hello"
    /\ MessagesOf("m2")[1].text = "loHel"

(***************************************************************************)
(* C26.  Lifecycle events and the current transport.                       *)
(***************************************************************************)
\* the lifecycle events notified so far, in order
Lifecycle ==
    SelectSeq(trace, LAMBDA e : e.k = "notify" /\ e.ev \in {CONNECTED, DISCONNECTED})

\* the most recently notified lifecycle event is connected
LastIsConnected == Lifecycle # <<>> /\ Lifecycle[Len(Lifecycle)].ev = CONNECTED

\* the step notifies disconnected
DisconnectedStep ==
    \E i \in DOMAIN NewEntries :
        NewEntries[i].k = "notify" /\ NewEntries[i].ev = DISCONNECTED

\* C26: lifecycle events agree with the current transport even when callbacks of a
\* replaced transport arrive late: whenever the most recently notified lifecycle event
\* is connected the current transport handle is Open, and disconnected is never
\* notified while the current transport is Open.
LifecycleAgreesWithTransport ==
    /\ [](LastIsConnected => IsOpen(sockets, socket))
    /\ [][DisconnectedStep => ~IsOpen(sockets', socket')]_vars

(***************************************************************************)
(* C27.  The first frame on a transport.                                   *)
(***************************************************************************)
\* the positions in the history of the frames sent on transport s
SendsOn(s) == {j \in DOMAIN trace : trace[j].k = "send" /\ trace[j].sock = s}

\* C27: on every transport the first frame ever sent is the auth frame: no init_data,
\* chat-turn or trigger frame is sent on a transport before an auth frame has been sent
\* on that same transport, under any interleaving of connect, setInitialData,
\* sendMessage, timer firings and transport callbacks.
AuthIsFirstFrame ==
    \A s \in Sockets :
        \A j \in SendsOn(s) :
            \/ IsSend(trace[j], "auth")
            \/ \E i \in AuthSendsOn(s) : i < j

\* a transport created by a second connect carried auth, then init_data, a chat turn
\* and the trigger
AuthIsFirstFrameWitness ==
    \E i, j, t \in SendsOn(2) :
        /\ AuthSendsOn(2) # {}
        /\ IsSend(trace[i], "init_data")
        /\ IsSend(trace[j], "message") /\ ~IsTrigger(trace[j])
        /\ IsTrigger(trace[t])

(***************************************************************************)
(* C28.  setInitialData while the connection is not Open.                  *)
(***************************************************************************)
SetInitialDataStep ==
    /\ Len(trace') > Len(trace)
    /\ trace'[Len(trace) + 1].k = "call"
    /\ trace'[Len(trace) + 1].op = "setInitialData"

ContextCall(i) == trace[i].k = "call" /\ trace[i].op = "setInitialData"

\* the setInitialData calls made while the connection was not Open
ClosedContextCalls == {i \in DOMAIN trace : ContextCall(i) /\ trace[i].ready # "OPEN"}

\* the chat turns sent after call i while its context was the stored one
TurnsUnder(i) ==
    {j \in (i + 1)..Len(trace) :
        /\ IsSend(trace[j], "message") /\ ~IsTrigger(trace[j])
        /\ \A m \in (i + 1)..(j - 1) : ~ContextCall(m)}

\* nothing was sent for call i, and the turns sent under it carry its context
StoredOnly(i) ==
    /\ InitSends(i) = {}
    /\ TriggerSends(i) = {}
    /\ \A j \in DOMAIN trace : trace[j].k = "callback" /\ trace[j].op = "timeout" =>
            trace[j].arg # i
    /\ \A j \in TurnsUnder(i) : ContextFields(Embedded(trace[j])) = FieldsOf(trace[i].arg)

\* C28: setInitialData called while the connection is not Open stores the context but
\* sends no frame and schedules no deferred trigger; no init_data or trigger frame for
\* that context is ever sent afterwards, even once the connection opens, although
\* every later sendMessage embeds the stored context fields.
ContextStoredWhileClosed ==
    /\ [][SetInitialDataStep /\ NotOpen =>
            /\ initialData' = StepFrame.arg
            /\ SentIn(NewEntries) = <<>>
            /\ timers' = timers
            /\ UNCHANGED <<sockets, socket>>]_vars
    /\ [](\A i \in ClosedContextCalls : StoredOnly(i))

\* a context was set while the transport was still Connecting; the transport opened
\* and a chat turn sent on it carried the context; the delay of the trigger has since
\* passed with no init_data or trigger sent
ContextStoredWhileClosedWitness ==
    \E i \in ClosedContextCalls :
        /\ trace[i].ready = "CONNECTING"
        /\ TurnsUnder(i) # {}
        /\ \A j \in TurnsUnder(i) : trace[j].sock = trace[i].cur
        /\ \E j \in TurnsUnder(i) : now >= trace[j].at + TriggerDelayMs
        /\ \A j \in DOMAIN trace : ~IsSend(trace[j], "init_data") /\ ~IsTrigger(trace[j])

(***************************************************************************)
(* C29.  Where error events come from.                                     *)
(***************************************************************************)
\* the step notifies an error event
ErrorNotified ==
    \E i \in DOMAIN NewEntries : NewEntries[i].k = "notify" /\ NewEntries[i].ev = ERROR

\* C29: while processing an inbound frame an error event is notified only if the frame
\* is malformed or is an error-tagged frame: a well-formed stream_start, stream_chunk,
\* stream_end, typing, message or greeting frame never causes an error event, even
\* when a listener of the event it maps to raises.
ErrorOnlyFromErrorFrames ==
    [][MessageStep /\ ErrorNotified =>
            \/ Malformed(StepFrame.arg)
            \/ FrameType(StepFrame) = "error"]_vars

====
